---- MODULE Spec2Model ----
(***************************************************************************)
(* A model of tor/proxy.py: the TorProxy lifecycle manager, the daemon it  *)
(* spawns, the output-drain thread it starts for every spawn, and the      *)
(* caller's thread of control that constructs the instance, enters and     *)
(* leaves its scope, calls cleanup and finally lets the interpreter exit.  *)
(***************************************************************************)
EXTENDS Integers, Sequences, FiniteSets, TLC

\* ------------------------------------------------------------------ bounds
\* processes (and drain threads) one instance spawns in a run
MaxSpawn == 2
\* output lines the daemons write in a run, all processes together
MaxLines == 2
\* the operating system hands out the ports 1..MaxPort
MaxPort == 2
\* the readiness deadline in ticks of 0.2 s; the source's 30 s are 150 ticks,
\* the model runs the same loop against a shorter deadline
StartTimeout == 3

\* ------------------------------------------------- constants of the source
\* time.sleep(0.2) between two connect attempts: one tick
SleepTicks == 1
\* socket.create_connection(..., 1): a connect attempt gives up after 1 s
ConnectTicks == 5
\* the clock is not followed further than this (the deadline is long past)
ClockCap == StartTimeout + 2 * (ConnectTicks + SleepTicks)

\* Python's None, for self.process and for an optional port argument
None == 0
\* an attribute __init__ never assigned (self._log_thread, self._stop_logging)
Unset == 0

Pids == 1..MaxSpawn
Ports == 1..MaxPort

\* what the daemon prints, line by line (character sequences without the
\* newline): plain text, text in blanks, a line of blanks only, more text.
\* Every spawn runs the same program; how far it gets is up to the daemon.
Output == << <<"a">>, <<" ", "b", " ">>, <<" ">>, <<"c">> >>

VARIABLES
    pc,            \* where the caller's thread is
    ret,           \* who called cleanup: "main", "exit" or "atexit"
    depth,         \* scopes entered (__enter__ returned) and not yet left
    hooks,         \* cleanup hooks registered with atexit and not yet run
    socks_port,    \* self.socks_port
    ctrl_port,     \* self.ctrl_port
    process,       \* self.process: None or the pid of a spawned process
    logThread,     \* self._log_thread: Unset or the drain thread's number
    stopLogging,   \* self._stop_logging: "unset", "false" or "true"
    elapsed,       \* ticks since the deadline of the running start was set
    nextPid,       \* the pid the next spawn gets
    procState,     \* per pid: unborn, starting, listening, killed, exited
    written,       \* per pid: how many lines of Output the process has written
    nread,         \* per pid: how many of them were read from its pipe
    sigs,          \* per pid: the signals sent to it while it lives, in order
    argv,          \* per pid: the port options of its command line
    thr,           \* per drain thread: begin, check, readline, blocked, done, crashed
    rd,            \* per drain thread: the pid whose stdout it is reading
    sink,          \* per pid: the lines the logger received from it
    raised,        \* the exception the caller's last operation ended with
    phase          \* the lifecycle state of the instance

vars == << pc, ret, depth, hooks, socks_port, ctrl_port, process, logThread,
           stopLogging, elapsed, nextPid, procState, written, nread, sigs,
           argv, thr, rd, sink, raised, phase >>

instVars == << socks_port, ctrl_port, process, logThread, stopLogging >>
procVars == << procState, written, nread, sigs, argv >>
thrVars == << thr, rd, sink >>
callVars == << pc, ret, depth, hooks, elapsed, nextPid, raised, phase >>

\* ---------------------------------------------------------------- helpers
Min(a, b) == IF a < b THEN a ELSE b

\* Popen.poll() is None: the process has not exited
Alive(p) == procState[p] \in {"starting", "listening", "killed"}

\* the process executes its program (no SIGKILL was delivered to it)
Running(p) == procState[p] \in {"starting", "listening"}

\* a TCP connect to 127.0.0.1:socks_port succeeds
Listening == \E p \in Pids : procState[p] = "listening"

\* threading.Thread.is_alive()
ThreadAlive(t) == thr[t] \in {"begin", "check", "readline", "blocked"}

\* str.strip() on a line of output
RECURSIVE LStrip(_)
LStrip(l) == IF l # << >> /\ Head(l) = " " THEN LStrip(Tail(l)) ELSE l
RECURSIVE RStrip(_)
RStrip(l) == IF l # << >> /\ l[Len(l)] = " " THEN RStrip(SubSeq(l, 1, Len(l) - 1)) ELSE l
Strip(l) == RStrip(LStrip(l))

\* what the drain loop hands to the logger for a line it read: the stripped
\* line, unless that is empty
Logged(s, l) == IF Strip(l) # << >> THEN Append(s, Strip(l)) ELSE s

\* the unread content of a process's stdout pipe
Pipe(p) == SubSeq(Output, nread[p] + 1, written[p])

TotalWritten == LET RECURSIVE Sum(_)
                    Sum(n) == IF n = 0 THEN 0 ELSE written[n] + Sum(n - 1)
                IN Sum(MaxSpawn)

\* ------------------------------------------------------------------- Init
Init ==
    /\ pc = "new"
    /\ ret = "main"
    /\ depth = 0
    /\ hooks = 0
    /\ socks_port = None
    /\ ctrl_port = None
    /\ process = None
    /\ logThread = Unset
    /\ stopLogging = "unset"
    /\ elapsed = 0
    /\ nextPid = 1
    /\ procState = [p \in Pids |-> "unborn"]
    /\ written = [p \in Pids |-> 0]
    /\ nread = [p \in Pids |-> 0]
    /\ sigs = [p \in Pids |-> << >>]
    /\ argv = [p \in Pids |-> << >>]
    /\ thr = [t \in Pids |-> "unborn"]
    /\ rd = [t \in Pids |-> None]
    /\ sink = [p \in Pids |-> << >>]
    /\ raised = "none"
    /\ phase = "NONE"

\* ------------------------------------------------------------ construction
\* TorProxy.__init__ up to the check of the executable's path: the arguments
\* are bound (a port argument is a port, or None), and a path that does not
\* exist ends the construction with FileNotFoundError
Construct ==
    /\ pc = "new"
    /\ \E exists \in BOOLEAN, sp \in {None} \cup Ports, cp \in {None} \cup Ports :
        IF ~exists
        THEN /\ raised' = "FileNotFoundError"
             /\ pc' = "done"
             /\ UNCHANGED << socks_port, ctrl_port >>
        ELSE /\ socks_port' = sp
             /\ ctrl_port' = cp
             /\ raised' = "none"
             /\ pc' = "init"
    /\ UNCHANGED << ret, depth, hooks, process, logThread, stopLogging, elapsed,
                    nextPid, phase >>
    /\ UNCHANGED procVars
    /\ UNCHANGED thrVars

\* _free_port(): bind a socket to port 0, read the port the system chose,
\* close the socket. The system chooses among the ports no socket holds, and
\* once the socket is closed the port is free again.
FreePort(p) == p \in Ports

\* the rest of __init__: socks_port or _free_port(), ctrl_port or
\* _free_port(), self.process = None
AssignPorts ==
    /\ pc = "init"
    /\ \E a \in Ports, b \in Ports :
        /\ FreePort(a)
        /\ FreePort(b)
        /\ socks_port' = IF socks_port # None THEN socks_port ELSE a
        /\ ctrl_port' = IF ctrl_port # None THEN ctrl_port ELSE b
    /\ process' = None
    /\ phase' = "UNSTARTED"
    /\ pc' = "main"
    /\ UNCHANGED << ret, depth, hooks, logThread, stopLogging, elapsed, nextPid, raised >>
    /\ UNCHANGED procVars
    /\ UNCHANGED thrVars

\* ------------------------------------------------------------------ start
\* f"{n}" of a port number: its decimal digits
DigitChars == << "0", "1", "2", "3", "4", "5", "6", "7", "8", "9" >>

RECURSIVE Decimal(_)
Decimal(n) ==
    IF n < 10
    THEN << DigitChars[n + 1] >>
    ELSE Append(Decimal(n \div 10), DigitChars[(n % 10) + 1])

\* a command line that has the two ports in each other's place
SpawnArgsSwapped ==
    << "--SocksPort", Decimal(ctrl_port), "--ControlPort", Decimal(socks_port) >>

\* the port options at the head of cmd: --SocksPort, --ControlPort
SpawnArgs ==
    << "--SocksPort", Decimal(socks_port), "--ControlPort", Decimal(ctrl_port) >>

\* TorProxy.socks_addr
AddrPrefix == << "socks5://127.0.0.1:" >>

socks_addr == AddrPrefix \o Decimal(socks_port)

\* TorProxy.__enter__ up to the readiness loop: Popen, the flag, the drain
\* thread, atexit.register, the deadline. Popen may fail in the operating
\* system (OSError; FileNotFoundError when the executable is gone by now), and
\* then nothing was assigned.
EnterSpawn ==
    /\ pc = "main"
    /\ nextPid <= MaxSpawn
    /\ process' = nextPid
    /\ procState' = [procState EXCEPT ![nextPid] = "starting"]
    /\ argv' = [argv EXCEPT ![nextPid] = SpawnArgs]
    /\ stopLogging' = "false"
    /\ logThread' = nextPid
    /\ thr' = [thr EXCEPT ![nextPid] = "begin"]
    /\ hooks' = hooks + 1
    /\ elapsed' = 0
    /\ nextPid' = nextPid + 1
    /\ raised' = "none"
    /\ phase' = "STARTING"
    /\ pc' = "enter"
    /\ UNCHANGED << ret, depth, socks_port, ctrl_port, written, nread, sigs, rd,
                    sink >>

EnterSpawnFails ==
    /\ pc = "main"
    /\ \E e \in {"ResourceUnavailable", "ExecutableNotFound"} : raised' = e
    /\ UNCHANGED << pc, ret, depth, hooks, elapsed, nextPid, phase >>
    /\ UNCHANGED instVars
    /\ UNCHANGED procVars
    /\ UNCHANGED thrVars

\* a loop that never looks at the clock
DeadlineNever(e) == FALSE

\* a loop that gives up one tick before the deadline
DeadlineEarly(e) == ~(e + 1 < StartTimeout)

\* while time.time() < deadline
DeadlinePassed(e) == ~(e < StartTimeout)

\* the loop's else branch: the deadline passed without a connect
EnterTimeout ==
    /\ pc = "enter"
    /\ DeadlinePassed(elapsed)
    /\ raised' = "StartupTimeout"
    /\ pc' = "main"
    /\ elapsed' = 0
    /\ UNCHANGED << ret, depth, hooks, nextPid, phase >>
    /\ UNCHANGED instVars
    /\ UNCHANGED procVars
    /\ UNCHANGED thrVars

\* a connect whose failure goes unnoticed
ConnectNeverRefused == FALSE

\* create_connection raises OSError: nothing listens on the port
ConnectRefused == ~Listening

\* the loop's body when the connect fails: the attempt took up to the connect
\* timeout, and the loop sleeps before it looks at the clock again
EnterConnectFails ==
    /\ pc = "enter"
    /\ ~DeadlinePassed(elapsed)
    /\ ConnectRefused
    /\ \E d \in 0..ConnectTicks : elapsed' = Min(elapsed + d + SleepTicks, ClockCap)
    /\ UNCHANGED << pc, ret, depth, hooks, nextPid, raised, phase >>
    /\ UNCHANGED instVars
    /\ UNCHANGED procVars
    /\ UNCHANGED thrVars

\* the loop's body when the connect succeeds: break, return self
EnterReady ==
    /\ pc = "enter"
    /\ ~DeadlinePassed(elapsed)
    /\ ~ConnectRefused
    /\ raised' = "none"
    /\ phase' = "READY"
    /\ depth' = depth + 1
    /\ pc' = "main"
    /\ elapsed' = 0
    /\ UNCHANGED << ret, hooks, nextPid >>
    /\ UNCHANGED instVars
    /\ UNCHANGED procVars
    /\ UNCHANGED thrVars

\* ------------------------------------------------------------------- stop
\* cleanup blocks twice, in the join of the drain thread (up to 1 s) and in
\* the wait for the process (up to 5 s); what it does between two blocking
\* calls is one step of the caller.

\* __exit__ returns None: an exception of the body is not swallowed
ExitSuppresses == FALSE

\* a cleanup that keeps the handle
NotCleared(h) == h

\* if self.process: self.process = None
Cleared(h) == None

\* cleanup's last statement, and the return to whoever called it: the main
\* program, the interpreter's exit, or __exit__, which lets the exception of
\* a scope body that raised go on
CleanupReturn(r) ==
    /\ process' = IF process # None THEN Cleared(process) ELSE process
    /\ phase' = "STOPPED"
    /\ pc' = IF r = "atexit" THEN "atexit" ELSE "main"
    /\ depth' = IF r = "exit" THEN depth - 1 ELSE depth
    /\ \E bodyRaised \in BOOLEAN :
          raised' = IF r = "exit" /\ bodyRaised /\ ~ExitSuppresses
                    THEN "BodyException" ELSE "none"
    /\ ret' = "main"

\* a terminate() that does not ask poll() first
TerminateUnchecked == process # None

\* if self.process and self.process.poll() is None
NeedsTerminate == process # None /\ Alive(process)

\* after the join: terminate() and wait(timeout=5), when there is a live process
CleanupTerminate(r) ==
    IF NeedsTerminate
    THEN /\ sigs' = [sigs EXCEPT ![process] = Append(@, "TERM")]
         /\ pc' = "cl_wait"
         /\ ret' = r
         /\ phase' = IF phase = "STOPPED" THEN "STOPPED" ELSE "STOPPING"
         /\ raised' = "none"
         /\ UNCHANGED << process, depth >>
    ELSE /\ sigs' = sigs
         /\ CleanupReturn(r)

\* cleanup's first statements: set the flag, join the drain thread if it is
\* alive. An instance that never ran __enter__ has no _log_thread attribute.
CleanupBegin(r) ==
    /\ stopLogging' = "true"
    /\ IF logThread = Unset
       THEN /\ raised' = "AttributeError"
            /\ pc' = IF r = "atexit" THEN "atexit" ELSE "main"
            /\ UNCHANGED << ret, phase, process, depth, sigs >>
       ELSE IF ThreadAlive(logThread)
       THEN /\ pc' = "cl_join"
            /\ ret' = r
            /\ phase' = IF phase = "STOPPED" THEN "STOPPED" ELSE "STOPPING"
            /\ raised' = "none"
            /\ UNCHANGED << process, depth, sigs >>
       ELSE CleanupTerminate(r)

\* an explicit proxy.cleanup()
CleanupCall ==
    /\ pc = "main"
    /\ CleanupBegin("main")
    /\ UNCHANGED << hooks, socks_port, ctrl_port, logThread, elapsed, nextPid >>
    /\ UNCHANGED << procState, written, nread, argv >>
    /\ UNCHANGED thrVars

\* TorProxy.__exit__, on leaving a scope whose body ended normally or raised
\* (which of the two shows when __exit__ returns)
Exit ==
    /\ pc = "main"
    /\ depth > 0
    /\ CleanupBegin("exit")
    /\ UNCHANGED << hooks, socks_port, ctrl_port, logThread, elapsed, nextPid >>
    /\ UNCHANGED << procState, written, nread, argv >>
    /\ UNCHANGED thrVars

\* a join() without a timeout returns when the thread has ended
JoinUnbounded == ~ThreadAlive(logThread)

\* join(timeout=1) returns when the thread has ended or the second is over,
\* whichever is first: nothing the thread does can keep it from returning
JoinBounded == TRUE

\* self._log_thread.join(timeout=1) returns
CleanupJoin ==
    /\ pc = "cl_join"
    /\ JoinBounded
    /\ CleanupTerminate(ret)
    /\ UNCHANGED << hooks, socks_port, ctrl_port, logThread, stopLogging, elapsed,
                    nextPid >>
    /\ UNCHANGED << procState, written, nread, argv >>
    /\ UNCHANGED thrVars

\* self.process.wait(timeout=5) returns: the process exited
CleanupWaitDone ==
    /\ pc = "cl_wait"
    /\ ~Alive(process)
    /\ CleanupReturn(ret)
    /\ UNCHANGED << hooks, socks_port, ctrl_port, logThread, stopLogging, elapsed,
                    nextPid >>
    /\ UNCHANGED procVars
    /\ UNCHANGED thrVars

\* self.process.wait(timeout=5) raises TimeoutExpired: kill()
CleanupWaitTimeout ==
    /\ pc = "cl_wait"
    /\ Alive(process)
    /\ sigs' = [sigs EXCEPT ![process] = Append(@, "KILL")]
    /\ procState' = [procState EXCEPT ![process] = "killed"]
    /\ CleanupReturn(ret)
    /\ UNCHANGED << hooks, socks_port, ctrl_port, logThread, stopLogging, elapsed,
                    nextPid >>
    /\ UNCHANGED << written, nread, argv >>
    /\ UNCHANGED thrVars

\* ---------------------------------------------------------- interpreter exit
\* the program ends: the interpreter runs the hooks atexit holds
ProgramExit ==
    /\ pc = "main"
    /\ pc' = "atexit"
    /\ raised' = "none"
    /\ UNCHANGED << ret, depth, hooks, elapsed, nextPid, phase >>
    /\ UNCHANGED instVars
    /\ UNCHANGED procVars
    /\ UNCHANGED thrVars

\* one registered hook: self.cleanup
AtexitRun ==
    /\ pc = "atexit"
    /\ hooks > 0
    /\ hooks' = hooks - 1
    /\ CleanupBegin("atexit")
    /\ UNCHANGED << socks_port, ctrl_port, logThread, elapsed, nextPid >>
    /\ UNCHANGED << procState, written, nread, argv >>
    /\ UNCHANGED thrVars

AtexitDone ==
    /\ pc = "atexit"
    /\ hooks = 0
    /\ pc' = "done"
    /\ UNCHANGED << ret, depth, hooks, elapsed, nextPid, raised, phase >>
    /\ UNCHANGED instVars
    /\ UNCHANGED procVars
    /\ UNCHANGED thrVars

\* ------------------------------------------------------------- the daemon
\* the run is followed until the interpreter has exited: its daemon threads
\* end with it, and nothing observes the processes any more
InterpreterRuns == pc # "done"

\* the daemon opens its SOCKS port; one socket can listen on a port
ProcListen ==
    \E p \in Pids :
        /\ InterpreterRuns
        /\ procState[p] = "starting"
        /\ ~Listening
        /\ procState' = [procState EXCEPT ![p] = "listening"]
        /\ UNCHANGED << written, nread, sigs, argv >>
        /\ UNCHANGED instVars
        /\ UNCHANGED thrVars
        /\ UNCHANGED callVars

\* the daemon writes a line to its stdout/stderr pipe
ProcWrite ==
    \E p \in Pids :
        /\ InterpreterRuns
        /\ Running(p)
        /\ TotalWritten < MaxLines
        /\ written[p] < Len(Output)
        /\ written' = [written EXCEPT ![p] = @ + 1]
        /\ UNCHANGED << procState, nread, sigs, argv >>
        /\ UNCHANGED instVars
        /\ UNCHANGED thrVars
        /\ UNCHANGED callVars

\* the daemon exits: by itself, on a failure, or because it obeys SIGTERM
ProcExit ==
    \E p \in Pids :
        /\ InterpreterRuns
        /\ Running(p)
        /\ procState' = [procState EXCEPT ![p] = "exited"]
        /\ sigs' = [sigs EXCEPT ![p] = << >>]
        /\ UNCHANGED << written, nread, argv >>
        /\ UNCHANGED instVars
        /\ UNCHANGED thrVars
        /\ UNCHANGED callVars

\* SIGKILL takes effect
ProcDie ==
    \E p \in Pids :
        /\ InterpreterRuns
        /\ procState[p] = "killed"
        /\ procState' = [procState EXCEPT ![p] = "exited"]
        /\ sigs' = [sigs EXCEPT ![p] = << >>]
        /\ UNCHANGED << written, nread, argv >>
        /\ UNCHANGED instVars
        /\ UNCHANGED thrVars
        /\ UNCHANGED callVars

\* -------------------------------------------------------- the drain thread
\* _log_process_output: if not self.process: return
DrainBegin ==
    \E t \in Pids :
        /\ InterpreterRuns
        /\ thr[t] = "begin"
        /\ thr' = [thr EXCEPT ![t] = IF process = None THEN "done" ELSE "check"]
        /\ UNCHANGED << rd, sink >>
        /\ UNCHANGED instVars
        /\ UNCHANGED procVars
        /\ UNCHANGED callVars

\* the loop condition: not self._stop_logging and self.process.poll() is None
LoopGoesOn == Alive(process)

DrainCheck ==
    \E t \in Pids :
        /\ InterpreterRuns
        /\ thr[t] = "check"
        /\ thr' = [thr EXCEPT ![t] =
                     IF stopLogging = "true" THEN "done"
                     ELSE IF process = None THEN "crashed"
                     ELSE IF LoopGoesOn THEN "readline"
                     ELSE "done"]
        /\ UNCHANGED << rd, sink >>
        /\ UNCHANGED instVars
        /\ UNCHANGED procVars
        /\ UNCHANGED callVars

\* self.process.stdout.readline(): the thread takes the stream of whatever
\* self.process is now, and blocks in the read
DrainReadline ==
    \E t \in Pids :
        /\ InterpreterRuns
        /\ thr[t] = "readline"
        /\ IF process = None
           THEN /\ thr' = [thr EXCEPT ![t] = "crashed"]
                /\ rd' = rd
           ELSE /\ thr' = [thr EXCEPT ![t] = "blocked"]
                /\ rd' = [rd EXCEPT ![t] = process]
        /\ UNCHANGED sink
        /\ UNCHANGED instVars
        /\ UNCHANGED procVars
        /\ UNCHANGED callVars

\* readline returns a line: strip it and log it unless it is empty
DrainLine ==
    \E t \in Pids :
        /\ InterpreterRuns
        /\ thr[t] = "blocked"
        /\ Pipe(rd[t]) # << >>
        /\ sink' = [sink EXCEPT ![rd[t]] = Logged(@, Head(Pipe(rd[t])))]
        /\ nread' = [nread EXCEPT ![rd[t]] = @ + 1]
        /\ thr' = [thr EXCEPT ![t] = "check"]
        /\ rd' = [rd EXCEPT ![t] = None]
        /\ UNCHANGED << procState, written, sigs, argv >>
        /\ UNCHANGED instVars
        /\ UNCHANGED callVars

\* readline returns "" at end of file (the process is gone): sleep 0.1 s
DrainEof ==
    \E t \in Pids :
        /\ InterpreterRuns
        /\ thr[t] = "blocked"
        /\ Pipe(rd[t]) = << >>
        /\ ~Alive(rd[t])
        /\ thr' = [thr EXCEPT ![t] = "check"]
        /\ rd' = [rd EXCEPT ![t] = None]
        /\ UNCHANGED sink
        /\ UNCHANGED instVars
        /\ UNCHANGED procVars
        /\ UNCHANGED callVars

\* ---------------------------------------------------------- specification
Caller ==
    \/ Construct
    \/ AssignPorts
    \/ EnterSpawn
    \/ EnterSpawnFails
    \/ EnterTimeout
    \/ EnterConnectFails
    \/ EnterReady
    \/ CleanupCall
    \/ Exit
    \/ CleanupJoin
    \/ CleanupWaitDone
    \/ CleanupWaitTimeout
    \/ ProgramExit
    \/ AtexitRun
    \/ AtexitDone

Daemon ==
    \/ ProcListen
    \/ ProcWrite
    \/ ProcExit
    \/ ProcDie

Drain ==
    \/ DrainBegin
    \/ DrainCheck
    \/ DrainReadline
    \/ DrainLine
    \/ DrainEof

Next == Caller \/ Daemon \/ Drain

Spec == Init /\ [][Next]_vars

\* the caller's thread runs: a start that is in its readiness loop goes on
\* with the loop
EnterStep == EnterTimeout \/ EnterConnectFails \/ EnterReady

FairSpec == Init /\ [][Next]_vars /\ WF_vars(EnterStep)

\* the two blocking calls of cleanup are bounded by their timeouts: the
\* caller's thread goes on when one of them can return
CleanupStep == CleanupJoin \/ CleanupWaitDone \/ CleanupWaitTimeout

StopFairSpec == Init /\ [][Next]_vars /\ WF_vars(CleanupStep)

\* ------------------------------------------------------------------ claims
\* the processes of the instance that execute their program
RunningPids == {p \in Pids : Running(p)}

\* what the logger is due for the first n lines of Output: each line
\* stripped, the empty ones left out
RECURSIVE Due(_)
Due(n) == IF n = 0 THEN << >> ELSE Logged(Due(n - 1), Output[n])

\* C1: when start fails because the readiness deadline elapsed, cleanup has
\* run before the failure reaches the caller: the instance is STOPPED, the
\* handle is absent, no spawned process runs and the drain was told to stop.
C1_TimeoutCleansUp ==
    raised = "StartupTimeout" =>
        /\ phase = "STOPPED"
        /\ process = None
        /\ RunningPids = {}
        /\ stopLogging = "true"

\* C2: a cleanup invoked on an instance that was started and stopped raises
\* no error, sends no signal, and leaves the handle absent and the stop flag
\* set, as the first one did.
C2_SecondStopIsNoOp ==
    [][(phase = "STOPPED" /\ phase' = "STOPPED") =>
           /\ process' = None
           /\ stopLogging' = "true"
           /\ raised' # "AttributeError"
           /\ \A p \in Pids : Len(sigs'[p]) <= Len(sigs[p])]_vars

\* two spawns, and both exit hooks have run: the second of them ran cleanup
\* on an instance the first had stopped
C2_Witness ==
    /\ pc = "atexit"
    /\ nextPid = 3
    /\ hooks = 0
    /\ phase = "STOPPED"

\* C3: cleanup on an instance for which no process was ever created raises
\* no error and leaves the instance as it was.
C3_StopBeforeStartIsNoOp ==
    nextPid = 1 => (raised # "AttributeError" /\ stopLogging = "unset")

\* C4: when __exit__ returns, the handle is absent and no process of the
\* instance runs.
C4_ExitStopsTheProcess ==
    [][depth' < depth => (process' = None /\ \A p \in Pids : ~Running(p)')]_vars

\* C5: a start that has reached its readiness loop ends, READY or with
\* StartupTimeout, whatever the daemon does.
C5_StartTerminates ==
    (pc = "enter") ~>
        /\ pc = "main"
        /\ \/ raised = "none" /\ phase = "READY"
           \/ raised = "StartupTimeout"

\* a start ended with the timeout after the daemon had exited at once
C5_Witness ==
    /\ raised = "StartupTimeout"
    /\ pc = "main"
    /\ nextPid = 2
    /\ procState[1] = "exited"

\* C6: at most one process spawned by the instance runs.
C6_AtMostOneProcess == Cardinality(RunningPids) <= 1

\* C7: once stop has completed, the instance stays STOPPED and spawns nothing.
C7_StoppedIsTerminal ==
    [][phase = "STOPPED" => (phase' = "STOPPED" /\ nextPid' = nextPid)]_vars

\* C8: when the process has exited and its drain thread has ended without a
\* stop request, the logger has received every line the process wrote.
C8_DrainComplete ==
    \A p \in Pids :
        (procState[p] = "exited" /\ thr[p] = "done" /\ process = p
            /\ stopLogging = "false")
        => sink[p] = Due(written[p])

\* C9: two ports that both come from the allocator differ.
C9_AllocatedPortsDiffer ==
    [][(pc = "init" /\ socks_port = None /\ ctrl_port = None)
          => socks_port' # ctrl_port']_vars

\* C10: start returns READY only from a connect that succeeded: at that
\* instant the port is listening and the deadline has not passed.
C10_ReadyOnlyAfterConnect ==
    [][(pc = "enter" /\ depth' > depth) => (Listening /\ elapsed < StartTimeout)]_vars

\* start has just returned READY, and the port is listening
C10_Witness ==
    /\ pc = "main"
    /\ phase = "READY"
    /\ raised = "none"
    /\ depth = 1
    /\ Listening

\* C11: the process handle and the drain thread handle are absent together
\* or present together in every state of a constructed instance
C11_HandlesTogether ==
    pc \notin {"new", "init"} => ((process = None) <=> (logThread = Unset))

\* C12: a cleanup that has begun returns with the process handle cleared,
\* whatever the drain thread and the process do, and raises nothing of its
\* own
C12_StopTerminates ==
    (pc \in {"cl_join", "cl_wait"})
        ~> (/\ pc \in {"main", "atexit"}
            /\ process = None
            /\ raised \in {"none", "BodyException"})

\* a cleanup has returned although the join timed out on a drain thread that
\* is still in readline and the process did not end on terminate()
C12_Witness ==
    /\ pc \in {"main", "atexit"}
    /\ process = None
    /\ phase = "STOPPED"
    /\ logThread # Unset
    /\ thr[logThread] = "blocked"
    /\ procState[logThread] = "killed"
    /\ sigs[logThread] = << "TERM", "KILL" >>

\* C13: the process handle is cleared only for a process that has been seen
\* to have ended, on the kill path too
C13_ClearedOnlyWhenExited ==
    [][(process # None /\ process' = None)
          => procState'[process] = "exited"]_vars

\* C14: the steps of a shutdown come in order. A signal is sent only with
\* the stop flag set and the join of the drain thread behind (or no live
\* thread to join), only to the process of the handle, and only while that
\* process has not ended: terminate first, kill only from the bounded wait
\* that follows terminate.
C14_ShutdownOrdered ==
    [][\A p \in Pids :
          Len(sigs'[p]) > Len(sigs[p])
              => /\ stopLogging' = "true"
                 /\ p = process
                 /\ Alive(p)
                 /\ IF sigs[p] = << >>
                    THEN /\ sigs'[p] = << "TERM" >>
                         /\ \/ pc = "cl_join"
                            \/ pc \in {"main", "atexit"} /\ ~ThreadAlive(logThread)
                    ELSE /\ sigs[p] = << "TERM" >>
                         /\ sigs'[p] = << "TERM", "KILL" >>
                         /\ pc = "cl_wait"]_vars

\* a process has been sent terminate, then kill
C14_Witness ==
    \E p \in Pids : procState[p] = "killed" /\ sigs[p] = << "TERM", "KILL" >>

\* a drain thread in readline on the pipe of a process that lives and has
\* written nothing more
BlockedInRead(t) ==
    /\ thr[t] = "blocked"
    /\ Alive(rd[t])
    /\ Pipe(rd[t]) = << >>

\* C15: with the stop flag set, the drain thread is out of its loop a poll
\* interval later, a process that lives and is silent notwithstanding: the
\* join of one second never ends on a thread that is in a read
C15_FlagEndsDrain ==
    [][(pc = "cl_join" /\ pc' # "cl_join") => ~BlockedInRead(logThread)]_vars

\* C16: when the interpreter has run its exit hooks, no process that the
\* instance spawned executes any more, whether start failed, timed out or
\* was never followed by a stop
C16_NoneLeftAtExit == pc = "done" => RunningPids = {}

\* C17: the drain thread never reaches through a process handle that is
\* None, however its steps fall between those of cleanup
C17_DrainNeverDereferencesNone == \A t \in Pids : thr[t] # "crashed"

\* C18: a step of the drain thread writes no attribute of the instance, and
\* the stop flag, once cleanup has set it, stays set
C18_FlagStaysSet ==
    [][/\ (thrVars' # thrVars /\ nextPid' = nextPid) => UNCHANGED instVars
       /\ stopLogging = "true" => stopLogging' = "true"]_vars

\* C19: the readiness loop is held to its deadline. The timeout is raised
\* only with the deadline reached, and no later than one connect attempt and
\* one sleep after it; a connect attempt begins only before the deadline.
C19_TimeoutAtDeadline ==
    [][pc = "enter"
          => /\ raised' = "StartupTimeout"
                  => /\ elapsed >= StartTimeout
                     /\ elapsed <= StartTimeout + ConnectTicks + SleepTicks
             /\ (depth' > depth \/ (pc' = "enter" /\ elapsed' # elapsed))
                  => elapsed < StartTimeout]_vars

\* the loop is back at its test as late as it can be: its last connect
\* attempt began a tick before the deadline, ran into its timeout, and the
\* sleep followed
C19_Witness ==
    /\ pc = "enter"
    /\ elapsed = StartTimeout - 1 + ConnectTicks + SleepTicks
    /\ DeadlinePassed(elapsed)

\* C20: past construction no step changes a port, and the address the
\* instance gives out names the port that every process it spawned was
\* given as --SocksPort
C20_PortsFixed ==
    [][pc \notin {"new", "init"}
          => /\ socks_port' = socks_port
             /\ ctrl_port' = ctrl_port
             /\ \A p \in Pids :
                    Len(argv'[p]) > 0
                        => /\ argv'[p][1] = "--SocksPort"
                           /\ socks_addr' = AddrPrefix \o argv'[p][2]]_vars

\* the interpreter has exited after a start, the drain thread and the exit
\* hook have run, and the address still names the port of the command line
C20_Witness ==
    /\ pc = "done"
    /\ nextPid > 1
    /\ thr[1] \notin {"unborn", "begin"}
    /\ socks_port # ctrl_port
    /\ socks_addr = AddrPrefix \o argv[1][2]

====
